---------------------------- MODULE Spec2Model ----------------------------
(***************************************************************************)
(* Chunk-parallel zlib compression / decompression (compressor.py,         *)
(* decompressor.py, main.py).                                              *)
(*                                                                         *)
(* A payload is a sequence of bytes (naturals 0..255).  The pipeline       *)
(* splits it with split_data_generator, maps compress_chunk or             *)
(* decompress_chunk over the chunks with multiprocessing.Pool.imap, and    *)
(* joins the results.  The pool is modelled by its threads and processes:  *)
(* the task handler that feeds the generator's chunks to the task queue,   *)
(* the worker processes, whose results the result handler files in the     *)
(* IMapIterator, and the driver (the for loop of *_data_parallel).         *)
(***************************************************************************)
EXTENDS Integers, Sequences, FiniteSets, TLC

(***************************************************************************)
(* Bounds of the model.                                                    *)
(***************************************************************************)
MaxByte == 1        \* payload bytes are drawn from 0..MaxByte
MaxLen == 3         \* payloads of every length 0..MaxLen
MaxChunk == 3       \* chunk_size ranges over -1..MaxChunk
MaxWorkers == 2     \* num_workers ranges over 0..MaxWorkers
MaxPieces == 2      \* a decompression input holds 1..MaxPieces streams

(***************************************************************************)
(* Sequence helpers.                                                       *)
(***************************************************************************)
Min(a, b) == IF a <= b THEN a ELSE b

RECURSIVE Sum(_)
Sum(s) == IF s = <<>> THEN 0 ELSE Head(s) + Sum(Tail(s))

RECURSIVE Repeat(_, _)
Repeat(b, n) == IF n <= 0 THEN <<>> ELSE <<b>> \o Repeat(b, n - 1)

\* Join with a fault: a separator byte between the pieces
RECURSIVE JoinSep(_)
JoinSep(ss) ==
    IF ss = <<>> THEN <<>>
    ELSE IF Len(ss) = 1 THEN Head(ss)
    ELSE Head(ss) \o <<0>> \o JoinSep(Tail(ss))

\* b''.join(chunks)
RECURSIVE Join(_)
Join(ss) == IF ss = <<>> THEN <<>> ELSE Head(ss) \o Join(Tail(ss))

\* data[i:j] with 0 <= i <= j (Python slice: clipped to the length)
Slice(s, i, j) == SubSeq(s, i + 1, Min(j, Len(s)))

(***************************************************************************)
(* The codec: zlib.compress / zlib.decompress.                             *)
(*                                                                         *)
(* A zlib stream (RFC 1950) is the two header bytes CMF FLG, a             *)
(* self-delimiting compressed body, and a checksum of the uncompressed     *)
(* bytes.  The body is modelled by run-length coding: one (count, byte)    *)
(* pair per maximal run, closed by the end-of-block mark EOB.  Like        *)
(* DEFLATE it is longer than a short input and shorter than a repetitive   *)
(* one.  zlib.decompress reads one stream from the start of its argument;  *)
(* it raises zlib.error on a bad header, a truncated stream or a checksum  *)
(* mismatch, and it ignores any bytes that follow the end of the stream.   *)
(***************************************************************************)
CMF == 120          \* 0x78: deflate, 32K window
FLG == 156          \* 0x9c: default level, (CMF*256 + FLG) % 31 = 0
EOB == 0            \* end-of-block mark of the body
ADLER_BASE == 65521 \* modulus of the Adler-32 checksum

Adler(s) == (1 + Sum(s)) % ADLER_BASE

\* length of the maximal run of s[1] at the head of s (s non-empty)
RECURSIVE RunLength(_)
RunLength(s) ==
    IF Len(s) >= 2 /\ s[2] = s[1] THEN 1 + RunLength(Tail(s)) ELSE 1

RECURSIVE Deflate(_)
Deflate(s) ==
    IF s = <<>> THEN <<>>
    ELSE LET n == RunLength(s)
         IN  <<n, s[1]>> \o Deflate(SubSeq(s, n + 1, Len(s)))

\* the body parser: [ok, value, next] from position pos of s, acc so far
RECURSIVE Inflate(_, _, _)
Inflate(s, pos, acc) ==
    IF pos > Len(s) THEN [ok |-> FALSE, value |-> <<>>, next |-> pos]
    ELSE IF s[pos] = EOB THEN [ok |-> TRUE, value |-> acc, next |-> pos + 1]
    ELSE IF pos + 1 > Len(s) THEN [ok |-> FALSE, value |-> <<>>, next |-> pos]
    ELSE Inflate(s, pos + 2, acc \o Repeat(s[pos + 1], s[pos]))

HeaderOk(s) ==
    /\ Len(s) >= 2
    /\ s[1] % 16 = 8
    /\ s[1] \div 16 <= 7
    /\ (s[1] * 256 + s[2]) % 31 = 0
    /\ (s[2] \div 32) % 2 = 0

\* zlib.error as the pool's worker records it: (False, exception).  The
\* exception holds zlib's message and nothing else.
HEADER_CHECK == "zlib.error: incorrect header check"
TRUNCATED == "zlib.error: incomplete or truncated stream"
DATA_CHECK == "zlib.error: incorrect data check"
ZlibErrors == {HEADER_CHECK, TRUNCATED, DATA_CHECK}

ZlibError(msg) == [ok |-> FALSE, value |-> <<>>, err |-> msg]

\* compressor.py: compress_chunk
compress_chunk(data_chunk) ==
    <<CMF, FLG>> \o Deflate(data_chunk) \o <<EOB>> \o <<Adler(data_chunk)>>

\* decompressor.py: decompress_chunk; the result is (success, value) as the
\* pool's worker records it
decompress_chunk(data_chunk) ==
    IF Len(data_chunk) < 2 THEN ZlibError(TRUNCATED)
    ELSE IF ~HeaderOk(data_chunk) THEN ZlibError(HEADER_CHECK)
    ELSE LET r == Inflate(data_chunk, 3, <<>>)
         IN  IF ~r.ok THEN ZlibError(TRUNCATED)
             ELSE IF r.next > Len(data_chunk) THEN ZlibError(TRUNCATED)
             ELSE IF data_chunk[r.next] # Adler(r.value)
                  THEN ZlibError(DATA_CHECK)
             ELSE [ok |-> TRUE, value |-> r.value, err |-> ""]

(***************************************************************************)
(* split_data_generator: range(0, len(data), chunk_size) and the slices.   *)
(***************************************************************************)
\* InRange with a fault: the range includes its stop
InRangeIncl(i, n, step) == IF step > 0 THEN i <= n ELSE i >= n

\* whether range(0, n, step) still holds offset i (step # 0)
InRange(i, n, step) == IF step > 0 THEN i < n ELSE i > n

\* ChunkAt with a fault: the slice stops one byte early
ChunkAtShort(data, i, chunk_size) == Slice(data, i, i + chunk_size - 1)

\* the chunk yielded at offset i
ChunkAt(data, i, chunk_size) == Slice(data, i, i + chunk_size)

\* the whole sequence of chunks the generator yields from offset i on
RECURSIVE split_data_generator(_, _, _)
split_data_generator(data, i, chunk_size) ==
    IF InRange(i, Len(data), chunk_size)
    THEN <<ChunkAt(data, i, chunk_size)>>
             \o split_data_generator(data, i + chunk_size, chunk_size)
    ELSE <<>>

\* Python's floor division a // b (b # 0)
FloorDiv(a, b) == IF b > 0 THEN a \div b ELSE (-a) \div (-b)

\* TotalChunks with a fault: the division rounds down
TotalChunksFloor(data, chunk_size) == FloorDiv(Len(data), chunk_size)

\* total_chunks = (len(data) + chunk_size - 1) // chunk_size
TotalChunks(data, chunk_size) ==
    FloorDiv(Len(data) + chunk_size - 1, chunk_size)


(***************************************************************************)
(* State.                                                                  *)
(***************************************************************************)
VARIABLES
    fn,            \* "compress" | "decompress": which *_data_parallel runs
    data,          \* its argument data
    chunk_size,    \* its argument chunk_size
    num_workers,   \* its argument num_workers
    pc,            \* the driver: "idle", "call", "pool", "loop", "exit", "done"
    total_chunks,  \* the local total_chunks
    pbar,          \* tqdm: [open, total, n]
    yielded,       \* the chunks the generator data_chunks has yielded so far
    pool_state,    \* "none" | "RUN" | "TERMINATE"
    taskq,         \* the pool's task queue: tasks [i, chunk]
    alive,         \* number of live worker processes of the pool
    running,       \* the tasks the workers are running, one per busy worker
    it_index,      \* IMapIterator._index
    it_length,     \* IMapIterator._length (-1: None)
    it_items,      \* IMapIterator._items
    it_unsorted,   \* IMapIterator._unsorted
    collected,     \* compressed_chunks / decompressed_chunks
    ret,           \* how the call ended: [status, value, exc]
    started,       \* number of tasks the workers have taken
    codec_calls,   \* number of times a worker has applied the codec
    reordered,     \* whether a worker finished a chunk before an earlier one
    orig,          \* main: the payload that was compressed (round trip)
    stage,         \* main: 1 compression, 2 decompression of its output
    folder,        \* the folder run: [op, files, idx, pc, chunk_size,
                   \*   num_workers]; files are [name, data] in the order
                   \*   of os.walk, each in a directory of its own
    out_files      \* the output folder: [name, data, src] per file, src
                   \*   the position of the input file it was written for

pipeVars == <<fn, data, chunk_size, num_workers, pc, total_chunks, pbar,
              yielded, pool_state, taskq, alive, running, it_index, it_length,
              it_items, it_unsorted, collected, ret, started, codec_calls,
              reordered>>
mainVars == <<orig, stage>>
folderVars == <<folder, out_files>>
vars == <<pipeVars, mainVars, folderVars>>

NoRet == [status |-> "none", value |-> <<>>, exc |-> ""]
Raised(e) == [status |-> "raised", value |-> <<>>, exc |-> e]
Returned(v) == [status |-> "returned", value |-> v, exc |-> ""]
NoPbar == [open |-> FALSE, total |-> 0, n |-> 0]
NoFolder == [op |-> "none", files |-> <<>>, idx |-> 0, pc |-> "none",
             chunk_size |-> 0, num_workers |-> 0]

\* the state in which a call of fn(d, c, w) is entered
Enter(f, d, c, w) ==
    /\ fn = f
    /\ data = d
    /\ chunk_size = c
    /\ num_workers = w
    /\ pc = "call"
    /\ total_chunks = 0
    /\ pbar = NoPbar
    /\ yielded = <<>>
    /\ pool_state = "none"
    /\ taskq = <<>>
    /\ alive = 0
    /\ running = {}
    /\ it_index = 0
    /\ it_length = -1
    /\ it_items = <<>>
    /\ it_unsorted = {}
    /\ collected = <<>>
    /\ ret = NoRet
    /\ started = 0
    /\ codec_calls = 0
    /\ reordered = FALSE

\* the same, as the next state
EnterNext(f, d, c, w) ==
    /\ fn' = f
    /\ data' = d
    /\ chunk_size' = c
    /\ num_workers' = w
    /\ pc' = "call"
    /\ total_chunks' = 0
    /\ pbar' = NoPbar
    /\ yielded' = <<>>
    /\ pool_state' = "none"
    /\ taskq' = <<>>
    /\ alive' = 0
    /\ running' = {}
    /\ it_index' = 0
    /\ it_length' = -1
    /\ it_items' = <<>>
    /\ it_unsorted' = {}
    /\ collected' = <<>>
    /\ ret' = NoRet
    /\ started' = 0
    /\ codec_calls' = 0
    /\ reordered' = FALSE

\* the codec operation the pool maps: (success, value) as the worker wraps it
Codec(f, chunk) ==
    IF f = "compress"
    THEN [ok |-> TRUE, value |-> compress_chunk(chunk), err |-> ""]
    ELSE decompress_chunk(chunk)

(***************************************************************************)
(* The driver, lines 80-82: the generator is created (lazily) and          *)
(* total_chunks is computed; chunk_size = 0 raises ZeroDivisionError.      *)
(***************************************************************************)
Begin ==
    /\ pc = "call"
    /\ IF chunk_size = 0
       THEN /\ pc' = "done"
            /\ ret' = Raised("ZeroDivisionError")
            /\ UNCHANGED total_chunks
       ELSE /\ pc' = "pool"
            /\ total_chunks' = TotalChunks(data, chunk_size)
            /\ UNCHANGED ret
    /\ UNCHANGED <<fn, data, chunk_size, num_workers, pbar, yielded,
                   pool_state, taskq, alive, running, it_index, it_length,
                   it_items, it_unsorted, collected, started, codec_calls>>
    /\ UNCHANGED <<reordered, mainVars, folderVars>>

(***************************************************************************)
(* Lines 83-86: multiprocessing.Pool(num_workers) raises ValueError for    *)
(* num_workers < 1 and otherwise starts the workers; tqdm announces the    *)
(* total; the result list is emptied; pool.imap hands the generator to     *)
(* the task handler.                                                       *)
(***************************************************************************)
CreatePool ==
    /\ pc = "pool"
    /\ IF num_workers < 1
       THEN /\ pc' = "done"
            /\ ret' = Raised("ValueError")
            /\ UNCHANGED <<pool_state, alive, pbar>>
       ELSE /\ pc' = "loop"
            /\ pool_state' = "RUN"
            /\ alive' = num_workers
            /\ pbar' = [open |-> TRUE, total |-> total_chunks, n |-> 0]
            /\ UNCHANGED ret
    /\ UNCHANGED <<fn, data, chunk_size, num_workers, total_chunks, yielded,
                   taskq, running, it_index, it_length, it_items, it_unsorted,
                   collected, started, codec_calls>>
    /\ UNCHANGED <<reordered, mainVars, folderVars>>

(***************************************************************************)
(* The pool's task handler thread: it draws the next chunk from the        *)
(* generator and puts it, numbered, on the task queue; when the generator  *)
(* is exhausted it tells the iterator how many tasks there are.            *)
(***************************************************************************)
GenOffset == Len(yielded) * chunk_size

TaskHandlerPut ==
    /\ pool_state = "RUN"
    /\ it_length = -1
    /\ InRange(GenOffset, Len(data), chunk_size)
    /\ LET chunk == ChunkAt(data, GenOffset, chunk_size)
       IN  /\ taskq' = Append(taskq, [i |-> Len(yielded), chunk |-> chunk])
           /\ yielded' = Append(yielded, chunk)
    /\ UNCHANGED <<fn, data, chunk_size, num_workers, pc, total_chunks, pbar,
                   pool_state, alive, running, it_index, it_length, it_items,
                   it_unsorted, collected, ret, started, codec_calls>>
    /\ UNCHANGED <<reordered, mainVars, folderVars>>

TaskHandlerSetLength ==
    /\ pool_state = "RUN"
    /\ it_length = -1
    /\ ~InRange(GenOffset, Len(data), chunk_size)
    /\ it_length' = Len(yielded)
    /\ UNCHANGED <<fn, data, chunk_size, num_workers, pc, total_chunks, pbar,
                   yielded, pool_state, taskq, alive, running, it_index,
                   it_items, it_unsorted, collected, ret, started,
                   codec_calls>>
    /\ UNCHANGED <<reordered, mainVars, folderVars>>

(***************************************************************************)
(* IMapIterator._set(i, obj): a result whose turn it is goes to _items,    *)
(* followed by the results that were waiting for it in _unsorted; any      *)
(* other result waits in _unsorted.                                        *)
(***************************************************************************)
Obj(r) == [ok |-> r.ok, value |-> r.value, err |-> r.err]

\* the results of _unsorted that follow index idx without a gap, in order
RECURSIVE Flush(_, _)
Flush(idx, unsorted) ==
    IF \E r \in unsorted : r.i = idx
    THEN LET r == CHOOSE x \in unsorted : x.i = idx
         IN  <<r>> \o Flush(idx + 1, unsorted \ {r})
    ELSE <<>>

ObjOf(rs) == [k \in 1..Len(rs) |-> Obj(rs[k])]

\* ItSet with a fault: results are filed in the order of their arrival
ItSetArrival(index, items, unsorted, r) ==
    [index |-> index + 1, items |-> items \o <<Obj(r)>>,
     unsorted |-> unsorted]

\* ItSet with a fault: a result that arrives before its turn is dropped
ItSetDrop(index, items, unsorted, r) ==
    IF r.i = index
    THEN [index |-> index + 1, items |-> items \o <<Obj(r)>>,
          unsorted |-> unsorted]
    ELSE [index |-> index, items |-> items, unsorted |-> unsorted]

\* the iterator [index, items, unsorted] after _set files result r
ItSet(index, items, unsorted, r) ==
    IF r.i = index
    THEN LET more == Flush(index + 1, unsorted)
         IN  [index |-> index + 1 + Len(more),
              items |-> items \o <<Obj(r)>> \o ObjOf(more),
              unsorted |-> unsorted \ {more[k] : k \in 1..Len(more)}]
    ELSE [index |-> index, items |-> items, unsorted |-> unsorted \cup {r}]

(***************************************************************************)
(* A worker process.  It takes the task at the head of the queue           *)
(* (WorkerStart); it applies the codec operation and puts                  *)
(* (i, (success, value)) on the result queue, from where the result        *)
(* handler thread files it with IMapIterator._set (WorkerFinish: results   *)
(* reach the iterator in the order in which the workers finish).  The      *)
(* workers are interchangeable, so the state keeps the set of tasks being  *)
(* run, at most one per live worker.                                       *)
(***************************************************************************)
WorkerStart ==
    /\ pool_state = "RUN"
    /\ Cardinality(running) < alive
    /\ taskq # <<>>
    /\ running' = running \cup {Head(taskq)}
    /\ taskq' = Tail(taskq)
    /\ started' = started + 1
    /\ UNCHANGED <<fn, data, chunk_size, num_workers, pc, total_chunks, pbar,
                   yielded, pool_state, alive, it_index, it_length, it_items,
                   it_unsorted, collected, ret, codec_calls>>
    /\ UNCHANGED <<reordered, mainVars, folderVars>>

\* WorkerFinish with a fault: a chunk whose codec operation failed is put
\* back on the task queue to be tried again
WorkerFinishRetry(t) ==
    /\ pool_state = "RUN"
    /\ t \in running
    /\ running' = running \ {t}
    /\ LET r == Codec(fn, t.chunk)
           it == ItSet(it_index, it_items, it_unsorted,
                       [i |-> t.i, ok |-> r.ok, value |-> r.value,
                        err |-> r.err])
       IN  IF r.ok
           THEN /\ it_index' = it.index
                /\ it_items' = it.items
                /\ it_unsorted' = it.unsorted
                /\ codec_calls' = codec_calls + 1
                /\ reordered' = (reordered \/ t.i # it_index)
                /\ UNCHANGED taskq
           ELSE /\ taskq' = <<t>> \o taskq
                /\ UNCHANGED <<it_index, it_items, it_unsorted, codec_calls,
                               reordered>>
    /\ UNCHANGED <<fn, data, chunk_size, num_workers, pc, total_chunks, pbar,
                   yielded, pool_state, alive, it_length, collected,
                   ret, started>>
    /\ UNCHANGED <<mainVars, folderVars>>

WorkerFinish(t) ==
    /\ pool_state = "RUN"
    /\ t \in running
    /\ running' = running \ {t}
    /\ codec_calls' = codec_calls + 1
    /\ reordered' = (reordered \/ t.i # it_index)
    /\ LET r == Codec(fn, t.chunk)
           it == ItSet(it_index, it_items, it_unsorted,
                       [i |-> t.i, ok |-> r.ok, value |-> r.value,
                        err |-> r.err])
       IN  /\ it_index' = it.index
           /\ it_items' = it.items
           /\ it_unsorted' = it.unsorted
    /\ UNCHANGED <<fn, data, chunk_size, num_workers, pc, total_chunks, pbar,
                   yielded, pool_state, taskq, alive, it_length, collected,
                   ret, started>>
    /\ UNCHANGED <<mainVars, folderVars>>

(***************************************************************************)
(* The driver's loop (lines 86-88 of decompressor.py, 87-89 of             *)
(* compressor.py): IMapIterator.next() pops the next result in order; a    *)
(* success is appended and ticked, a failure is raised; with no result     *)
(* left and _index = _length the loop ends; otherwise the driver waits.    *)
(***************************************************************************)
\* DriverNext with a fault: a failed result is skipped instead of raised
DriverNextSkip ==
    /\ pc = "loop"
    /\ IF it_items # <<>>
       THEN LET item == Head(it_items)
            IN  /\ it_items' = Tail(it_items)
                /\ IF item.ok
                   THEN /\ collected' = Append(collected, item.value)
                        /\ pbar' = [pbar EXCEPT !.n = @ + 1]
                        /\ UNCHANGED <<pc, ret>>
                   ELSE UNCHANGED <<pc, ret, collected, pbar>>
       ELSE /\ it_index = it_length
            /\ pc' = "exit"
            /\ UNCHANGED <<it_items, collected, pbar, ret>>
    /\ UNCHANGED <<fn, data, chunk_size, num_workers, total_chunks, yielded,
                   pool_state, taskq, alive, running, it_index, it_length,
                   it_unsorted, started, codec_calls>>
    /\ UNCHANGED <<reordered, mainVars, folderVars>>

\* DriverNext with a fault: the newest result is taken, not the oldest
DriverNextNewest ==
    /\ pc = "loop"
    /\ IF it_items # <<>>
       THEN LET item == it_items[Len(it_items)]
            IN  /\ it_items' = SubSeq(it_items, 1, Len(it_items) - 1)
                /\ IF item.ok
                   THEN /\ collected' = Append(collected, item.value)
                        /\ pbar' = [pbar EXCEPT !.n = @ + 1]
                        /\ UNCHANGED <<pc, ret>>
                   ELSE /\ pc' = "exit"
                        /\ ret' = Raised(item.err)
                        /\ UNCHANGED <<collected, pbar>>
       ELSE /\ it_index = it_length
            /\ pc' = "exit"
            /\ UNCHANGED <<it_items, collected, pbar, ret>>
    /\ UNCHANGED <<fn, data, chunk_size, num_workers, total_chunks, yielded,
                   pool_state, taskq, alive, running, it_index, it_length,
                   it_unsorted, started, codec_calls>>
    /\ UNCHANGED <<reordered, mainVars, folderVars>>

DriverNext ==
    /\ pc = "loop"
    /\ IF it_items # <<>>
       THEN LET item == Head(it_items)
            IN  /\ it_items' = Tail(it_items)
                /\ IF item.ok
                   THEN /\ collected' = Append(collected, item.value)
                        /\ pbar' = [pbar EXCEPT !.n = @ + 1]
                        /\ UNCHANGED <<pc, ret>>
                   ELSE /\ pc' = "exit"
                        /\ ret' = Raised(item.err)
                        /\ UNCHANGED <<collected, pbar>>
       ELSE /\ it_index = it_length
            /\ pc' = "exit"
            /\ UNCHANGED <<it_items, collected, pbar, ret>>
    /\ UNCHANGED <<fn, data, chunk_size, num_workers, total_chunks, yielded,
                   pool_state, taskq, alive, running, it_index, it_length,
                   it_unsorted, started, codec_calls>>
    /\ UNCHANGED <<reordered, mainVars, folderVars>>

(***************************************************************************)
(* Leaving the with blocks: the progress bar is closed and                 *)
(* Pool.__exit__ terminates the pool (the workers are killed, the queues   *)
(* dropped); then either the exception propagates or line 91 returns the   *)
(* joined chunks.                                                          *)
(***************************************************************************)
\* PoolExit with a fault: the pool is left running when the call ends
PoolExitNoTerminate ==
    /\ pc = "exit"
    /\ pc' = "done"
    /\ UNCHANGED <<pool_state, alive, running, taskq, it_items, it_unsorted>>
    /\ pbar' = [pbar EXCEPT !.open = FALSE]
    /\ ret' = IF ret.status = "raised" THEN ret ELSE Returned(Join(collected))
    /\ UNCHANGED <<fn, data, chunk_size, num_workers, total_chunks, yielded,
                   it_index, it_length, collected, started, codec_calls>>
    /\ UNCHANGED <<reordered, mainVars, folderVars>>

PoolExit ==
    /\ pc = "exit"
    /\ pc' = "done"
    /\ pool_state' = "TERMINATE"
    /\ alive' = 0
    /\ running' = {}
    /\ taskq' = <<>>
    /\ it_items' = <<>>
    /\ it_unsorted' = {}
    /\ pbar' = [pbar EXCEPT !.open = FALSE]
    /\ ret' = IF ret.status = "raised" THEN ret ELSE Returned(Join(collected))
    /\ UNCHANGED <<fn, data, chunk_size, num_workers, total_chunks, yielded,
                   it_index, it_length, collected, started, codec_calls>>
    /\ UNCHANGED <<reordered, mainVars, folderVars>>


(***************************************************************************)
(* The inputs.                                                             *)
(***************************************************************************)
SeqsUpTo(S, n) == UNION {[1..k -> S] : k \in 0..n}

Payloads == SeqsUpTo(0..MaxByte, MaxLen)
ChunkSizes == -1..MaxChunk
WorkerCounts == 0..MaxWorkers

\* length of the stream of a one-run chunk
StreamLen == Len(compress_chunk(<<0>>))

\* a repetitive payload whose two chunks compress into one slice
LongRun == Repeat(0, 2 * StreamLen + 1)

\* inputs of decompression: valid streams and damaged ones
GoodStreams == {compress_chunk(<<b>>) : b \in 0..MaxByte}
BadHeader(s) == [s EXCEPT ![1] = 0]
BadCheck(s) == [s EXCEPT ![Len(s)] = @ + 1]
Truncated(s) == SubSeq(s, 1, Len(s) - 1)
Streams ==
    GoodStreams \cup {BadHeader(compress_chunk(<<0>>)),
                      BadCheck(compress_chunk(<<0>>)),
                      Truncated(compress_chunk(<<0>>))}
\* a decoding stream followed by two damaged ones, damaged differently
TwoFailures ==
    compress_chunk(<<0>>) \o BadCheck(compress_chunk(<<0>>))
        \o BadHeader(compress_chunk(<<0>>))
EncodedInputs ==
    {Join(ps) : ps \in UNION {[1..k -> Streams] : k \in 1..MaxPieces}}

CompressCalls ==
    [fn : {"compress"}, data : Payloads,
     chunk_size : ChunkSizes \cup {StreamLen}, num_workers : WorkerCounts]
    \cup [fn : {"compress"}, data : {LongRun}, chunk_size : {2 * StreamLen},
          num_workers : 1..MaxWorkers]
DecompressCalls ==
    [fn : {"decompress"}, data : EncodedInputs \cup {<<>>},
     chunk_size : {-1, 0, StreamLen}, num_workers : WorkerCounts]
    \cup [fn : {"decompress"}, data : GoodStreams, chunk_size : 1..MaxChunk,
          num_workers : 1..MaxWorkers]
    \cup [fn : {"decompress"}, data : {TwoFailures},
          chunk_size : {StreamLen}, num_workers : 1..MaxWorkers]
Calls == CompressCalls \cup DecompressCalls

Init ==
    /\ \E c \in Calls : Enter(c.fn, c.data, c.chunk_size, c.num_workers)
    /\ orig = <<>>
    /\ stage = 1
    /\ folder = NoFolder
    /\ out_files = {}

Next ==
    \/ Begin
    \/ CreatePool
    \/ TaskHandlerPut
    \/ TaskHandlerSetLength
    \/ WorkerStart
    \/ \E t \in running : WorkerFinish(t)
    \/ DriverNext
    \/ PoolExit

Spec == Init /\ [][Next]_vars

(***************************************************************************)
(* main.py: step 1 compresses, step 2 decompresses what step 1 wrote,      *)
(* with the same chunk_size and num_workers.                               *)
(***************************************************************************)
MainDecompress ==
    /\ stage = 1
    /\ fn = "compress"
    /\ pc = "done"
    /\ ret.status = "returned"
    /\ stage' = 2
    /\ orig' = data
    /\ EnterNext("decompress", ret.value, chunk_size, num_workers)
    /\ UNCHANGED folderVars

InitMain ==
    /\ \E c \in CompressCalls :
           Enter(c.fn, c.data, c.chunk_size, c.num_workers)
    /\ orig = <<>>
    /\ stage = 1
    /\ folder = NoFolder
    /\ out_files = {}

NextMain == Next \/ MainDecompress

SpecMain == InitMain /\ [][NextMain]_vars


(***************************************************************************)
(* What the claims speak of.                                               *)
(***************************************************************************)
\* ceil(a / b) for a >= 0, b > 0: the least n with n * b >= a
CeilDiv(a, b) == CHOOSE n \in 0..a : n * b >= a /\ (n = 0 \/ (n - 1) * b < a)

ValidConfig == chunk_size > 0 /\ num_workers >= 1

\* the chunks of the payload and the codec's result on each
Chunks == split_data_generator(data, 0, chunk_size)
Results == [k \in 1..Len(Chunks) |-> Codec(fn, Chunks[k])]
AllOk == \A k \in 1..Len(Chunks) : Results[k].ok
Values(rs) == [k \in 1..Len(rs) |-> rs[k].value]

Completed == pc = "done" /\ ret.status = "returned"
Failed == pc = "done" /\ ret.status = "raised"

\* C4: for chunk_size > 0 the generator yields exactly ceil(len/c) chunks,
\* all but the last of length c, the last non-empty, their concatenation
\* in order is the payload, and total_chunks is the number yielded.
ChunkCountInvariant ==
    (chunk_size > 0 /\ it_length # -1) =>
        /\ Len(yielded) = CeilDiv(Len(data), chunk_size)
        /\ \A k \in 1..(Len(yielded) - 1) : Len(yielded[k]) = chunk_size
        /\ \A k \in 1..Len(yielded) : Len(yielded[k]) >= 1
        /\ Join(yielded) = data
        /\ total_chunks = Len(yielded)
        /\ it_length = Len(yielded)

\* the generator has run dry after two chunks, the last one short
ChunkCountWitness ==
    /\ chunk_size > 0
    /\ it_length = 2
    /\ Len(yielded[2]) < chunk_size

\* C7: an empty payload yields no chunk, the pipeline returns the empty
\* byte string, and no worker takes a task or applies the codec.
EmptyInput ==
    (data = <<>> /\ ValidConfig) =>
        /\ yielded = <<>>
        /\ started = 0
        /\ codec_calls = 0
        /\ pc = "done" => ret = Returned(<<>>)

EmptyInputWitness ==
    /\ data = <<>>
    /\ fn = "decompress"
    /\ ValidConfig
    /\ Completed
    /\ it_length = 0

\* C10: the total announced is ceil(len/c) and is there before any tick;
\* there is one tick per collected result; ticks <= total throughout, and
\* ticks = total when the run ends Completed.
ProgressAccounting ==
    chunk_size > 0 =>
        /\ pbar.n = Len(collected)
        /\ pbar.n > 0 => pbar.total = CeilDiv(Len(data), chunk_size)
        /\ pc \in {"loop", "exit"} =>
               pbar.open /\ pbar.total = CeilDiv(Len(data), chunk_size)
        /\ pbar.n <= pbar.total
        /\ Completed => pbar.n = pbar.total

ProgressWitness ==
    /\ Completed
    /\ pbar.n = 2
    /\ Len(data) % chunk_size # 0

\* C3: the outcome of a run is fixed by the payload and the chunk size: it
\* is that of taking the chunks one by one in order, whatever the number
\* of workers and the order in which they finish.
InOrderOutcome ==
    IF AllOk THEN Returned(Join(Values(Results)))
    ELSE Raised(Results[CHOOSE k \in 1..Len(Results) :
                            /\ ~Results[k].ok
                            /\ \A j \in 1..(k - 1) : Results[j].ok].err)

OrderIndependence ==
    ValidConfig =>
        /\ \A k \in 1..Len(collected) : collected[k] = Results[k].value
        /\ pc = "done" => ret = InOrderOutcome

\* a run of several workers that finished chunks out of order and returned
OrderWitness ==
    /\ Completed
    /\ num_workers >= 2
    /\ reordered
    /\ Len(collected) >= 2
    /\ collected[1] # collected[2]

\* C6: while no codec operation fails, every chunk drawn from the
\* generator is in exactly one place (queued, running, waiting out of
\* order, ready for the driver, or collected), and a run that returns has
\* collected exactly one result per chunk index.
Places(k) ==
    Cardinality({p \in DOMAIN taskq : taskq[p].i = k})
    + Cardinality({t \in running : t.i = k})
    + Cardinality({r \in it_unsorted : r.i = k})
    + (IF it_index - Len(it_items) <= k /\ k < it_index THEN 1 ELSE 0)
    + (IF k < Len(collected) THEN 1 ELSE 0)

NoLossNoDup ==
    (ValidConfig /\ AllOk) =>
        /\ pool_state = "RUN" =>
               \A k \in 0..(Len(yielded) - 1) : Places(k) = 1
        /\ pool_state = "RUN" => Len(collected) + Len(it_items) = it_index
        /\ Completed => Len(collected) = Len(Chunks)

NoLossNoDupWitness ==
    /\ ValidConfig
    /\ AllOk
    /\ Completed
    /\ reordered
    /\ Len(collected) >= 2


\* C1 (as claimed): decompressing, with the same chunk size and workers,
\* what compress_data_parallel returned ends by returning the payload.
RoundTrip ==
    (stage = 2 /\ pc = "done" /\ ValidConfig) => ret = Returned(orig)

\* C5 (as claimed): a call with chunk_size <= 0 or num_workers <= 0 creates
\* no pool and no worker, hands no chunk to the codec and returns nothing.
InvalidConfigRejected ==
    (chunk_size <= 0 \/ num_workers <= 0) =>
        /\ pool_state = "none"
        /\ alive = 0
        /\ started = 0
        /\ codec_calls = 0
        /\ ret.status # "returned"

(***************************************************************************)
(* Scheduling: the threads of the pool, the worker processes and the       *)
(* driver all keep running, so a step that stays possible is taken.        *)
(***************************************************************************)
FairSpec == Spec /\ WF_vars(Next)

\* C9 (as amended): every call reaches its end; a failure ends it although
\* chunks are still queued or were never drawn; and once the pool is
\* terminated, which is when the call ends, no worker takes another chunk.
Termination == (pc = "call") ~> (pc = "done")

NoStartAfterEnd ==
    [][(pc = "done" /\ pc' = "done") =>
           (started' = started /\ codec_calls' = codec_calls)]_vars

TerminationAndCancellation == Termination /\ NoStartAfterEnd

\* a call that failed while chunks were still queued and others not drawn
CancellationWitness ==
    /\ Failed
    /\ ValidConfig
    /\ started < Len(yielded)
    /\ Len(yielded) < Len(Chunks)

\* C9 (as claimed): no worker takes a chunk after the driver has seen the
\* failure, that is from the moment next() raised.
NoStartAfterFailureSeen ==
    [][(pc = "exit" /\ ret.status = "raised") => started' = started]_vars

(***************************************************************************)
(* compress_folder / decompress_folder.  File names are sequences of       *)
(* characters.                                                             *)
(***************************************************************************)
MaxFiles == 2       \* a folder run walks 1..MaxFiles files

SUFFIX == <<".", "c", "o", "m", "p", "r", "e", "s", "s", "e", "d">>

\* file.endswith(suffix)
EndsWith(s, suffix) ==
    /\ Len(s) >= Len(suffix)
    /\ SubSeq(s, Len(s) - Len(suffix) + 1, Len(s)) = suffix

\* s.replace(old, new): every occurrence, left to right, not overlapping
RECURSIVE Replace(_, _, _)
Replace(s, old, new) ==
    IF Len(s) < Len(old) THEN s
    ELSE IF SubSeq(s, 1, Len(old)) = old
         THEN new \o Replace(SubSeq(s, Len(old) + 1, Len(s)), old, new)
         ELSE <<Head(s)>> \o Replace(Tail(s), old, new)

\* the name under which the output for input file `name` is written
OutputName(op, name) ==
    IF op = "compress_folder"
    THEN name \o SUFFIX
    ELSE Replace(name, SUFFIX, <<>>)

Names ==
    {<<"a">>, <<"a">> \o SUFFIX, <<"b">> \o SUFFIX,
     <<"a">> \o SUFFIX \o SUFFIX, SUFFIX \o <<"a">> \o SUFFIX,
     <<"a">> \o SUFFIX \o <<"t">>}

FolderPayloads == {<<0>>, <<1>>}
FolderStreams ==
    {compress_chunk(<<0>>), BadCheck(compress_chunk(<<0>>)),
     compress_chunk(<<0>>) \o BadCheck(compress_chunk(<<0>>)),
     compress_chunk(<<0>>) \o compress_chunk(<<1>>)}

FilesOf(contents) ==
    UNION {[1..k -> [name : Names, data : contents]] : k \in 1..MaxFiles}

FolderRuns ==
    [op : {"compress_folder"}, files : FilesOf(FolderPayloads)]
    \cup [op : {"decompress_folder"}, files : FilesOf(FolderStreams)]

FolderFile == folder.files[folder.idx + 1]
FolderFn == IF folder.op = "compress_folder" THEN "compress" ELSE "decompress"

\* the loop takes the next file of the walk, reads it and calls
\* *_data_parallel on its bytes
FolderCall ==
    /\ folder.pc = "walk"
    /\ folder.idx < Len(folder.files)
    /\ folder.op = "decompress_folder" => EndsWith(FolderFile.name, SUFFIX)
    /\ folder' = [folder EXCEPT !.pc = "call"]
    /\ EnterNext(FolderFn, FolderFile.data, folder.chunk_size,
                 folder.num_workers)
    /\ UNCHANGED <<mainVars, out_files>>

\* decompress_folder passes over a file that does not end in ".compressed"
FolderSkip ==
    /\ folder.pc = "walk"
    /\ folder.idx < Len(folder.files)
    /\ folder.op = "decompress_folder"
    /\ ~EndsWith(FolderFile.name, SUFFIX)
    /\ folder' = [folder EXCEPT !.idx = @ + 1]
    /\ UNCHANGED <<pipeVars, mainVars, out_files>>

\* the call returned: the bytes are written under the output name, over
\* any file of that name
FolderWrite ==
    /\ folder.pc = "call"
    /\ pc = "done"
    /\ ret.status = "returned"
    /\ LET name == OutputName(folder.op, FolderFile.name)
       IN  out_files' = {f \in out_files : f.name # name}
                            \cup {[name |-> name, data |-> ret.value,
                                   src |-> folder.idx + 1]}
    /\ folder' = [folder EXCEPT !.pc = "walk", !.idx = @ + 1]
    /\ UNCHANGED <<pipeVars, mainVars>>

\* the call raised: nothing catches it, the folder run ends with it
FolderRaise ==
    /\ folder.pc = "call"
    /\ pc = "done"
    /\ ret.status = "raised"
    /\ folder' = [folder EXCEPT !.pc = "raised"]
    /\ UNCHANGED <<pipeVars, mainVars, out_files>>

\* the walk is over
FolderReturn ==
    /\ folder.pc = "walk"
    /\ folder.idx = Len(folder.files)
    /\ folder' = [folder EXCEPT !.pc = "done"]
    /\ UNCHANGED <<pipeVars, mainVars, out_files>>

InitFolder ==
    /\ \E r \in FolderRuns :
           folder = [op |-> r.op, files |-> r.files, idx |-> 0,
                     pc |-> "walk", chunk_size |-> StreamLen,
                     num_workers |-> MaxWorkers]
    /\ out_files = {}
    /\ orig = <<>>
    /\ stage = 1
    /\ fn = "compress"
    /\ data = <<>>
    /\ chunk_size = StreamLen
    /\ num_workers = MaxWorkers
    /\ pc = "idle"
    /\ total_chunks = 0
    /\ pbar = NoPbar
    /\ yielded = <<>>
    /\ pool_state = "none"
    /\ taskq = <<>>
    /\ alive = 0
    /\ running = {}
    /\ it_index = 0
    /\ it_length = -1
    /\ it_items = <<>>
    /\ it_unsorted = {}
    /\ collected = <<>>
    /\ ret = NoRet
    /\ started = 0
    /\ codec_calls = 0
    /\ reordered = FALSE

NextFolder ==
    \/ Next
    \/ FolderCall
    \/ FolderSkip
    \/ FolderWrite
    \/ FolderRaise
    \/ FolderReturn

SpecFolder == InitFolder /\ [][NextFolder]_vars

\* C2: a payload with a chunk that is no valid stream ends with the
\* codec's error, returns no bytes, and decompress_folder writes no file
\* for it, whatever its other chunks decoded to.
FailFast ==
    (fn = "decompress" /\ pc # "idle" /\ ~AllOk) =>
        /\ ret.status # "returned"
        /\ pc = "done" => (ret.status = "raised" /\ ret.exc \in ZlibErrors)
        /\ \A f \in out_files : f.src # folder.idx + 1
        /\ folder.pc \notin {"walk", "done"}

\* the run ended on the second chunk's error after the first had decoded
FailFastWitness ==
    /\ folder.pc = "raised"
    /\ ret = Raised(DATA_CHECK)
    /\ Len(collected) >= 1
    /\ \A f \in out_files : f.src # folder.idx + 1

\* C8 (as claimed): compress_folder writes n + ".compressed";
\* decompress_folder writes n without its one trailing ".compressed".
StripOne(name) == SubSeq(name, 1, Len(name) - Len(SUFFIX))

OutputNaming ==
    \A f \in out_files :
        f.name = IF folder.op = "compress_folder"
                 THEN folder.files[f.src].name \o SUFFIX
                 ELSE StripOne(folder.files[f.src].name)

(***************************************************************************)
(* The pool of one call and the calls of a folder run.                     *)
(***************************************************************************)
\* C11: `with multiprocessing.Pool(...)` gives every call a pool of its own
\* and ends it on the way out, by return or by exception: a call that has
\* ended, or has not yet reached the `with`, has no worker alive and none
\* at work; the next call of a folder run is entered with no worker of the
\* call before it alive; and a worker only ever works on a chunk of the
\* payload of the call in progress.
NoWorkerOutsideWith ==
    pc \in {"idle", "call", "pool", "done"} =>
        /\ alive = 0
        /\ running = {}
        /\ pool_state # "RUN"

OwnChunksOnly ==
    \A t \in running :
        /\ chunk_size > 0
        /\ InRange(t.i * chunk_size, Len(data), chunk_size)
        /\ t.chunk = ChunkAt(data, t.i * chunk_size, chunk_size)

EnteredWithoutWorkers ==
    [][(pc' = "call" /\ pc # "call") => (alive = 0 /\ running = {})]_vars

ScopedPool ==
    /\ [](NoWorkerOutsideWith /\ OwnChunksOnly)
    /\ EnteredWithoutWorkers

\* the second call of a folder run has its own workers at work, after the
\* first call returned and its output was written
ScopedPoolWitness ==
    /\ folder.idx = 1
    /\ folder.pc = "call"
    /\ pc = "loop"
    /\ alive = folder.num_workers
    /\ running # {}
    /\ Cardinality(out_files) = 1

\* chunks taken from the generator whose result the driver has not collected:
\* queued, at work in a worker, or finished and waiting in the iterator
InFlight ==
    Len(taskq) + Cardinality(running) + Cardinality(it_unsorted)
    + Len(it_items)

\* C12 (as claimed): while the pool runs, the number of chunks in flight
\* stays within a fixed multiple of the worker count (here four times),
\* however many chunks the payload has.
Backpressure ==
    (ValidConfig /\ pool_state = "RUN") => InFlight <= 4 * num_workers

\* s is one complete valid stream and nothing more
ExactlyOneStream(s) ==
    /\ decompress_chunk(s).ok
    /\ Inflate(s, 3, <<>>).next = Len(s)

\* C13 (as claimed): a decompress call with a slice that is not exactly one
\* complete valid stream (cut short, or with bytes after the end of its
\* first stream) returns no bytes, and so decompressing what
\* compress_data_parallel returned never returns bytes other than the
\* payload.
NoSilentlyWrongBytes ==
    /\ (fn = "decompress" /\ ValidConfig
           /\ \E k \in 1..Len(Chunks) : ~ExactlyOneStream(Chunks[k]))
       => ret.status # "returned"
    /\ (stage = 2 /\ ValidConfig /\ Completed) => ret.value = orig

\* the sequential reference: the codec applied to the chunks one after the
\* other, from offset i on, each result put behind the ones before it
RECURSIVE SequentialReference(_, _, _, _)
SequentialReference(f, d, i, c) ==
    IF InRange(i, Len(d), c)
    THEN Codec(f, ChunkAt(d, i, c)).value
             \o SequentialReference(f, d, i + c, c)
    ELSE <<>>

\* C14: a call in which no codec operation fails returns exactly the
\* sequential reference: the codec's outputs for the chunks in ascending
\* index order, with no byte before, between or behind them.
ReassemblyMatchesReference ==
    (ValidConfig /\ AllOk /\ pc = "done") =>
        /\ ret = Returned(SequentialReference(fn, data, 0, chunk_size))
        /\ Len(ret.value) = Sum([k \in 1..Len(Results) |->
                                     Len(Results[k].value)])

\* three chunks compressed by two workers that finished out of order
ReassemblyWitness ==
    /\ fn = "compress"
    /\ Completed
    /\ Len(collected) = 3
    /\ num_workers = 2
    /\ reordered
    /\ ret.value = SequentialReference(fn, data, 0, chunk_size)

(***************************************************************************)
(* The states of a chunk and of a payload, read off the pool's state.      *)
(* Chunk k (counted from 0) is Running while a worker holds its task; it   *)
(* is Done or Failed once its result has reached the iterator, Done if     *)
(* the codec operation succeeded; before that it is Pending.  The payload  *)
(* is Reassembling when the loop has ended without an exception and line   *)
(* 91 is next.                                                             *)
(***************************************************************************)
HasResult(k) == k < it_index \/ \E r \in it_unsorted : r.i = k

ChunkState(k) ==
    IF \E t \in running : t.i = k THEN "Running"
    ELSE IF HasResult(k)
         THEN IF Results[k + 1].ok THEN "Done" ELSE "Failed"
    ELSE "Pending"

ChunkMoves ==
    {<<"Pending", "Pending">>, <<"Pending", "Running">>,
     <<"Running", "Running">>, <<"Running", "Done">>,
     <<"Running", "Failed">>, <<"Done", "Done">>, <<"Failed", "Failed">>}

Reassembling == pc = "exit" /\ ret.status = "none"

FailedSeen ==
    /\ ValidConfig
    /\ \E k \in 0..(Len(Chunks) - 1) : HasResult(k) /\ ~Results[k + 1].ok

\* C15: while the pool of a call runs, every chunk moves only from Pending
\* to Running and from Running to Done or Failed, and stays Done or Failed;
\* the codec is applied once for every result there is and to no chunk
\* twice; the payload is Reassembling or Completed only with every chunk
\* Done; and a payload with a Failed chunk is never Reassembling or
\* Completed and ends Failed.
ChunkLifecycle ==
    [][(ValidConfig /\ pool_state = "RUN" /\ pool_state' = "RUN") =>
           \A k \in 0..(Len(Chunks) - 1) :
               <<ChunkState(k), ChunkState(k)'>> \in ChunkMoves]_vars

CodecOncePerChunk ==
    ValidConfig =>
        /\ codec_calls <= started
        /\ started <= Len(yielded)
        /\ Len(yielded) <= Len(Chunks)
        /\ pool_state = "RUN" =>
               codec_calls = it_index + Cardinality(it_unsorted)

PayloadLifecycle ==
    /\ (ValidConfig /\ (Reassembling \/ Completed)) =>
           /\ it_index = Len(Chunks)
           /\ Len(collected) = Len(Chunks)
           /\ AllOk
    /\ FailedSeen => (~Reassembling /\ ~Completed)

PayloadStateMachine ==
    /\ ChunkLifecycle
    /\ [](CodecOncePerChunk /\ PayloadLifecycle)
    /\ FailedSeen ~> Failed

\* a call ended Failed on its first chunk after a later chunk was Done
PayloadStateMachineWitness ==
    /\ Failed
    /\ ValidConfig
    /\ ~Results[1].ok
    /\ codec_calls >= 2
    /\ reordered
    /\ \E k \in 1..Len(Chunks) : Results[k].ok

\* C16 (as claimed): a call that ends on a chunk's decode failure delivers
\* the index of that chunk together with the codec's error.
FailureContext ==
    (ValidConfig /\ Failed /\ ret.exc \in ZlibErrors) =>
        /\ ret.exc = Results[Len(collected) + 1].err
        /\ "index" \in DOMAIN ret
        /\ ret.index = Len(collected)

\* every slice of the k-th file of the walk decodes
FileDecodes(k) ==
    LET cs == split_data_generator(folder.files[k].data, 0,
                                   folder.chunk_size)
    IN  \A j \in 1..Len(cs) : decompress_chunk(cs[j]).ok

\* C17 (as claimed): when decompress_folder has ended, every ".compressed"
\* file of the walk that decodes has had its output written, whether or not
\* another file of the walk failed to decode.
BatchContinuation ==
    (folder.op = "decompress_folder" /\ folder.pc \in {"done", "raised"}) =>
        \A k \in 1..Len(folder.files) :
            (EndsWith(folder.files[k].name, SUFFIX) /\ FileDecodes(k)) =>
                \E f \in out_files :
                    f.name = OutputName(folder.op, folder.files[k].name)

\* the chunks whose codec operation fails, and the first of them (from 1)
Failing == {k \in 1..Len(Chunks) : ~Results[k].ok}
LowestFailing == CHOOSE k \in Failing : \A j \in Failing : k <= j

\* C18: when two or more chunks of a payload fail, the failure the call
\* raises is that of the failing chunk of lowest index, in every
\* interleaving of the workers; when it is raised, the results of all
\* chunks below that index have been collected, in order, and no result of
\* a chunk above it.
DeterministicFailure ==
    (ValidConfig /\ Cardinality(Failing) >= 2 /\ ret.status = "raised") =>
        /\ ret.exc = Results[LowestFailing].err
        /\ Len(collected) = LowestFailing - 1
        /\ \A k \in 1..Len(collected) : collected[k] = Results[k].value

\* two chunks failed with different errors, the higher one finished first;
\* the call raised the lower one's error after collecting the chunk before
DeterministicFailureWitness ==
    /\ Failed
    /\ ValidConfig
    /\ Cardinality(Failing) >= 2
    /\ \E k \in Failing : Results[k].err # Results[LowestFailing].err
    /\ LowestFailing >= 2
    /\ codec_calls = Len(Chunks)
    /\ reordered
    /\ ret.exc = Results[LowestFailing].err

\* C19 (as claimed): in one compress_folder run the files of the walk are
\* written to output paths that differ from one another, files of the same
\* name in different directories included: each file already handled still
\* has its own output.
NoOutputCollision ==
    folder.op = "compress_folder" =>
        \A k \in 1..folder.idx : \E f \in out_files : f.src = k

=============================================================================
